---- MODULE Spec2Model ----
(***************************************************************************)
(* Model of the article-to-post pipeline of scripts/update_posts.py, of    *)
(* the body enrichers of scripts/update_posts.py and                       *)
(* scripts/rehydrate_posts.py, and of the post repair scripts              *)
(* scripts/repair_posts.py and scripts/rehydrate_posts.py.                 *)
(*                                                                         *)
(* Text is modelled as a sequence of tokens.  A token is a word, the       *)
(* whitespace character "_" or the punctuation mark "!".  Upper-case words *)
(* are tokens of their own ("AI" vs "ai"), so that lower-casing, whitespace*)
(* collapsing and slugification are real conversions.  Python's None is    *)
(* the text NoneS for text fields and the string "None" for URL fields.    *)
(***************************************************************************)
EXTENDS Integers, Sequences, FiniteSets, TLC

\* ---------------------------------------------------------------- bounds
MaxRuns == 2        \* invocations of main() in one behaviour
MaxDay == 2         \* last day the clock can reach
MaxPageLen == 2     \* records per result page in the feeds of several records

\* ------------------------------------------------------ program constants
MAX_POSTS == 5
MaxPages == 3
DescMin == 60
GENERIC_FALLBACK == "/assets/ai-hero.svg"

TOPIC_HEROES ==
    [policy   |-> "/assets/topic-policy.svg",
     chips    |-> "/assets/topic-chips.svg",
     markets  |-> "/assets/topic-markets.svg",
     research |-> "/assets/topic-research.svg",
     health   |-> "/assets/topic-health.svg",
     edu      |-> "/assets/topic-edu.svg"]

ROTATE_CANDIDATES ==
    << "/assets/ai-hero-1.svg", "/assets/ai-hero-2.svg", "/assets/ai-hero-3.svg",
       "/assets/ai-hero-4.svg", "/assets/ai-hero-5.svg", "/assets/ai-hero-6.svg",
       "/assets/ai-hero-7.svg", "/assets/ai-hero-8.svg", "/assets/ai-hero-9.svg" >>

\* --------------------------------------------------------------- text
NoneS == << "<None>" >>
NoneU == "None"

LowerTok(tok) ==
    CASE tok = "AI"   -> "ai"
      [] tok = "LAW"  -> "law"
      [] tok = "SUB"  -> "sub"
      [] tok = "READ" -> "read"
      [] tok \in {"ONLY", "Only"}           -> "only"
      [] tok \in {"AVAILABLE", "Available"} -> "available"
      [] tok \in {"IN", "In"}               -> "in"
      [] tok \in {"PAID", "Paid"}           -> "paid"
      [] tok \in {"PLAN", "Plan"}           -> "plan"
      [] tok = "S"                          -> "s"
      [] tok = "Post"                       -> "post"
      [] OTHER        -> tok

\* number of characters a token stands for
CharLen(tok) ==
    CASE tok \in {"_", "!"}        -> 1
      [] tok \in {"ai", "AI"}      -> 2
      [] tok \in {"law", "LAW", "gpu"} -> 3
      [] tok \in {"sub", "SUB"}    -> 12    \* "subscribe to"
      [] tok \in {"read", "READ"}  -> 4
      [] tok = "long"              -> 70    \* a full sentence of filler
      [] tok \in {"Q", "BS", ":", "<", ">", "NL", "[", "s", "S"} -> 1
      [] tok \in {"in", "In", "IN", "](", ").", "endq"} -> 2
      [] tok \in {"only", "Only", "ONLY", "paid", "Paid", "PAID",
                  "plan", "Plan", "PLAN", "post", "Post", "http", "news"} -> 4
      [] tok \in {"available", "Available", "AVAILABLE"} -> 9
      [] tok = "readmore"          -> 12    \* "Read more at"
      [] tok = "about"             -> 23    \* "This article is about " + opening quote
      [] tok = "autogen"           -> 79    \* "This summary was auto-generated ... content."
      [] OTHER                     -> 5

RECURSIVE StrLen(_)
StrLen(s) == IF s = << >> THEN 0 ELSE CharLen(Head(s)) + StrLen(Tail(s))

lower(s) == [i \in 1..Len(s) |-> LowerTok(s[i])]

Contains(s, m) ==
    \E i \in 1..(Len(s) - Len(m) + 1) : SubSeq(s, i, i + Len(m) - 1) = m

RECURSIVE Squeeze(_)
Squeeze(s) ==
    IF Len(s) <= 1 THEN s
    ELSE IF s[1] = "_" /\ s[2] = "_" THEN Squeeze(Tail(s))
    ELSE << s[1] >> \o Squeeze(Tail(s))

RECURSIVE LStrip(_)
LStrip(s) == IF s # << >> /\ Head(s) = "_" THEN LStrip(Tail(s)) ELSE s

RECURSIVE RStrip(_)
RStrip(s) ==
    IF s # << >> /\ s[Len(s)] = "_" THEN RStrip(SubSeq(s, 1, Len(s) - 1)) ELSE s

safe_get(d, k) == d[k]

clean_text(s) ==
    IF s = NoneS \/ s = << >> THEN << >> ELSE RStrip(LStrip(Squeeze(s)))

too_similar(a, b) ==
    LET la == lower(clean_text(a))
        lb == lower(clean_text(b))
    IN  la = lb \/ (la # << >> /\ lb # << >> /\ (Contains(lb, la) \/ Contains(la, lb)))

markers ==
    { << "only", "_", "paid" >>,      \* "only available in paid plans"
      << "sub", "_", "read" >>,       \* "subscribe to read"
      << "sign", "_", "cont" >>,      \* "sign in to continue"
      << "under", "_", "constr" >> }  \* "under construction"

\* variant: the phrase test without lower-casing
has_low_value_markers_cased(t) == \E m \in markers : Contains(t, m)

has_low_value_markers(t) == \E m \in markers : Contains(lower(t), m)

\* first truthy operand of Python's `a or b`
OrText(a, b) == IF a # << >> THEN a ELSE b

\* slugify(): lower-case, runs of non-alphanumerics become one "-", no "-" at the ends
slugify(s) ==
    LET t == IF s = NoneS THEN << >> ELSE s
    IN  lower(SelectSeq(t, LAMBDA tok : tok \notin {"_", "!"}))


\* ------------------------------------------------------- dates and clock
DayTok(n) ==
    CASE n = 0 -> "d0" [] n = 1 -> "d1" [] n = 2 -> "d2" [] n = 3 -> "d3"
      [] n = 4 -> "d4" [] OTHER -> "d5"

\* datetime.now(timezone.utc).strftime("%Y-%m-%dT%H:%M:%SZ")
NowStamp(day) == << DayTok(day), "T" >>

\* datetime.now(timezone.utc).date().isoformat()
NowDate(day) == << DayTok(day) >>

\* s[:10] of a timestamp whose first ten characters are its date token
DatePart(s) == IF s = << >> THEN << >> ELSE << Head(s) >>

\* ------------------------------------------------------------- images
HttpUrls == { "http://i1", "http://i2" }

CachePath(url) ==
    IF url = "http://i1" THEN "/assets/cache/i1-0a1b2c3d.jpg"
    ELSE "/assets/cache/i2-4e5f6a7b.jpg"

CachePaths == { CachePath(u) : u \in HttpUrls }

\* what one HTTP download can do
Outcomes == { "ok", "neterr", "notimage", "toobig", "streamerr" }

NoFile == [state |-> "none", run |-> 0]

\* variant: an oversized download is abandoned without removing the file
download_and_cache_image_keepbig(url, o, c, run) ==
    CASE o = "ok" ->
            [ret |-> CachePath(url),
             cache |-> [c EXCEPT ![url] = [state |-> "full", run |-> run]]]
      [] o \in { "toobig", "streamerr" } ->
            [ret |-> NoneU,
             cache |-> [c EXCEPT ![url] = [state |-> "partial", run |-> run]]]
      [] OTHER ->
            [ret |-> NoneU, cache |-> c]

\* download_and_cache_image: the returned public path (or None) and the
\* cache directory afterwards, for one outcome of the HTTP exchange
download_and_cache_image(url, o, c, run) ==
    CASE o = "ok" ->
            [ret |-> CachePath(url),
             cache |-> [c EXCEPT ![url] = [state |-> "full", run |-> run]]]
      [] o = "toobig" ->       \* file opened, cap exceeded, file removed
            [ret |-> NoneU, cache |-> [c EXCEPT ![url] = NoFile]]
      [] o = "streamerr" ->    \* file opened "wb", exception while streaming
            [ret |-> NoneU,
             cache |-> [c EXCEPT ![url] = [state |-> "partial", run |-> run]]]
      [] OTHER ->              \* request failed or Content-Type is no image
            [ret |-> NoneU, cache |-> c]

TopicKeywords ==
    << [topic |-> "policy",
        kws |-> { <<"policy">>, <<"regulation">>, <<"ban">>, <<"law">>,
                  <<"eu", "_", "ai", "_", "act">> }],
       [topic |-> "chips",
        kws |-> { <<"gpu">>, <<"chip">>, <<"nvidia">>, <<"amd">>, <<"hardware">>,
                  <<"datacenter">> }],
       [topic |-> "markets",
        kws |-> { <<"stock">>, <<"shares">>, <<"earnings">>, <<"market">>,
                  <<"valuation">> }],
       [topic |-> "research",
        kws |-> { <<"research">>, <<"paper">>, <<"arxiv">>, <<"breakthrough">>,
                  <<"study">> }],
       [topic |-> "health",
        kws |-> { <<"health">>, <<"medical">>, <<"doctor">>, <<"biotech">>,
                  <<"hospital">> }],
       [topic |-> "edu",
        kws |-> { <<"classroom">>, <<"education">>, <<"students">>, <<"teachers">>,
                  <<"school">> }] >>

detect_topic(title, desc) ==
    LET t == lower(title \o << "_" >> \o desc)
        hits == { i \in 1..Len(TopicKeywords) :
                    \E k \in TopicKeywords[i].kws : Contains(t, k) }
    IN  IF hits = {} THEN NoneU
        ELSE TopicKeywords[CHOOSE i \in hits : \A j \in hits : i <= j].topic

\* int(md5(title).hexdigest(), 16): some fixed function of the title
RECURSIVE Md5(_)
Md5(title) ==
    IF title = << >> THEN 7 ELSE (3 * Md5(Tail(title)) + CharLen(Head(title))) % 997

\* variant: no fixed fallback when the rotation pool is empty
pick_rotating_hero_nofallback(title, disk) ==
    LET existing == SelectSeq(ROTATE_CANDIDATES, LAMBDA p : p \in disk)
    IN  IF existing = << >> THEN NoneU
        ELSE existing[(Md5(title) % Len(existing)) + 1]

pick_rotating_hero(title, disk) ==
    LET existing == SelectSeq(ROTATE_CANDIDATES, LAMBDA p : p \in disk)
    IN  IF existing = << >> THEN GENERIC_FALLBACK
        ELSE existing[(Md5(title) % Len(existing)) + 1]

UrlCandidates(item) ==
    << safe_get(item, "image_url"), safe_get(item, "image"),
       safe_get(item, "source_icon"), safe_get(item, "source_dot_icon") >>

\* the for-loop over url_candidates: downloads until one succeeds
RECURSIVE TryCandidates(_, _, _, _, _)
TryCandidates(cands, i, outs, c, run) ==
    IF i > Len(cands) THEN [local |-> NoneU, cache |-> c, attempts |-> << >>]
    ELSE IF cands[i] \in HttpUrls
    THEN LET d == download_and_cache_image(cands[i], outs[i], c, run)
         IN  IF d.ret # NoneU
             THEN [local |-> d.ret, cache |-> d.cache,
                   attempts |-> << << cands[i], outs[i] >> >>]
             ELSE LET r == TryCandidates(cands, i + 1, outs, d.cache, run)
                  IN  [r EXCEPT !.attempts = << << cands[i], outs[i] >> >> \o @]
    ELSE TryCandidates(cands, i + 1, outs, c, run)

\* variant: the topic hero is preferred to a downloaded provider image
pick_image_for_article_topicfirst(item, title, desc, outs, c, disk, run) ==
    LET t == TryCandidates(UrlCandidates(item), 1, outs, c, run)
        topic == detect_topic(title, desc)
    IN  [image |->
            IF topic # NoneU /\ TOPIC_HEROES[topic] \in disk
            THEN TOPIC_HEROES[topic]
            ELSE IF t.local # NoneU THEN t.local
                 ELSE pick_rotating_hero(title, disk),
         cache |-> t.cache,
         attempts |-> t.attempts]

pick_image_for_article(item, title, desc, outs, c, disk, run) ==
    LET t == TryCandidates(UrlCandidates(item), 1, outs, c, run)
        topic == detect_topic(title, desc)
    IN  [image |->
            IF t.local # NoneU THEN t.local
            ELSE IF topic # NoneU /\ TOPIC_HEROES[topic] \in disk
                 THEN TOPIC_HEROES[topic]
                 ELSE pick_rotating_hero(title, disk),
         cache |-> t.cache,
         attempts |-> t.attempts]

\* ------------------------------------------------------ post assembly
\* enrich_text seen through the two parts of the body that carry article text
PostBody(article) ==
    LET base == OrText(clean_text(article.content), clean_text(article.description))
    IN  [tldr |-> IF base = << >> THEN << "resumo" >> ELSE base,
         fonte |-> << article.source_id, article.link >>]

build_markdown(article, day) ==
    [layout |-> "post",
     title |-> article.title,
     date |-> NowDate(day),
     excerpt |-> article.description,
     image |-> IF article.image # NoneU THEN article.image ELSE GENERIC_FALLBACK,
     source |-> OrText(article.source_id, << "source" >>),
     source_url |-> article.link,
     body |-> PostBody(article)]

\* slug[:80], exact for slugs of at most 80 characters
RECURSIVE SlugCut(_, _)
SlugCut(slug, room) ==
    IF slug = << >> \/ CharLen(Head(slug)) > room THEN << >>
    ELSE << Head(slug) >> \o SlugCut(Tail(slug), room - CharLen(Head(slug)) - 1)

make_filename(title, date_str, day) ==
    LET date_part == DatePart(OrText(date_str, NowDate(day)))
        slug == OrText(SlugCut(slugify(title), 80), << "post" >>)
    IN  date_part \o slug

\* variant: no existence test, the file is always (re)written
write_post_clobber(article, dir, day, run) ==
    LET path == make_filename(article.title, article.pubDate, day)
        file == [content |-> build_markdown(article, day), run |-> run]
    IN  [ret |-> path,
         dir |-> [f \in DOMAIN dir \cup { path } |-> IF f = path THEN file ELSE dir[f]]]

\* write_post: the returned path (<< >> is None) and _posts/ afterwards
write_post(article, dir, day, run) ==
    LET path == make_filename(article.title, article.pubDate, day)
    IN  IF path \in DOMAIN dir
        THEN [ret |-> << >>, dir |-> dir]
        ELSE [ret |-> path,
              dir |-> (path :> [content |-> build_markdown(article, day), run |-> run])
                      @@ dir]


\* ------------------------------------------------- provider records
Base ==
    [title |-> << "AI", "_", "law" >>,
     description |-> << "long" >>,
     content |-> NoneS,
     link |-> << "L1" >>,
     url |-> NoneS,
     source_id |-> << "wire" >>,
     source |-> NoneS,
     image_url |-> NoneU,
     image |-> NoneU,
     source_icon |-> NoneU,
     source_dot_icon |-> NoneU,
     pubDate |-> << "d0", "_", "T" >>,
     published_at |-> NoneS]

RawItems ==
    { Base,
      \* the same story again: same link, other casing and spacing, a day later
      [Base EXCEPT !.title = << "ai", "_", "_", "LAW" >>,
                   !.pubDate = << "d1", "_", "T" >>],
      \* title or link missing or blank
      [Base EXCEPT !.title = NoneS, !.image = "http://i1"],
      [Base EXCEPT !.title = << "_", "_" >>],
      [Base EXCEPT !.link = NoneS],
      [Base EXCEPT !.link = << "_" >>, !.url = << >>],
      \* link under the "url" key, date under "published_at", no source
      [Base EXCEPT !.title = << "gpu", "_", "ai" >>, !.link = NoneS,
                   !.url = << "L2" >>, !.pubDate = NoneS,
                   !.published_at = << "d1", "_", "T" >>, !.source_id = NoneS],
      \* paywall phrase inside one field
      [Base EXCEPT !.description = << "SUB", "_", "_", "READ" >>,
                   !.image_url = "http://i1"],
      [Base EXCEPT !.description = << >>,
                   !.content = << "long", "_", "only", "_", "paid" >>],
      \* paywall phrase only in title + " " + description
      [Base EXCEPT !.title = << "AI", "_", "sub" >>,
                   !.description = << "read", "_", "long" >>],
      \* short description copied from the title
      [Base EXCEPT !.description = << "ai" >>, !.image_url = "http://i2"],
      \* provider images
      [Base EXCEPT !.title = << "ai", "!" >>, !.image_url = "http://i1"],
      [Base EXCEPT !.title = << "gpu" >>, !.image_url = "/rel.png",
                   !.image = "http://i1", !.source_dot_icon = "http://i2"],
      \* no date at all, no topic
      [Base EXCEPT !.title = << "ai" >>, !.description = << "long", "_", "ai" >>,
                   !.pubDate = NoneS] }

RECURSIVE SeqsUpTo(_, _)
SeqsUpTo(S, n) ==
    IF n = 0 THEN { << >> }
    ELSE LET shorter == SeqsUpTo(S, n - 1)
         IN  shorter \cup { Append(q, x) : q \in { r \in shorter : Len(r) = n - 1 }, x \in S }

\* the records that also occur together with others in one feed
PairItems ==
    { r \in RawItems :
        \/ r.title \in { << "AI", "_", "law" >>, << "ai", "_", "_", "LAW" >> }
           /\ r.link = << "L1" >> /\ r.description = << "long" >> }

\* a feed is what the provider holds: the result list of each page
Feeds ==
    { << p1, << >>, << >> >> :
        p1 \in SeqsUpTo(PairItems, MaxPageLen) \cup { << r >> : r \in RawItems } }
    \cup { << << r >>, << Base >>, << >> >> :
              r \in PairItems \cup { q \in RawItems : q.image_url = "http://i1" } }
    \cup { << << Base, Base, Base >>, << Base, Base, Base >>, << >> >> }

StaticAssets ==
    { {},
      { "/assets/topic-policy.svg" },
      { "/assets/ai-hero-2.svg", "/assets/ai-hero-5.svg" },
      { "/assets/topic-chips.svg", "/assets/ai-hero-1.svg" } }

\* a post left in _posts/ by an earlier deployment
OldPost ==
    [content |-> [layout |-> "post", title |-> << "old" >>, date |-> << "d0" >>,
                  excerpt |-> << >>, image |-> GENERIC_FALLBACK,
                  source |-> << "source" >>, source_url |-> << "L0" >>,
                  body |-> [tldr |-> << "old" >>, fonte |-> << >>]],
     run |-> 0]

InitialPosts ==
    { << >>, (<< "d0", "ai", "law" >> :> OldPost) }

\* ---------------------------------------------------------------- state
VARIABLES
    feed,        \* provider data: result list per page
    disk,        \* static assets present under assets/
    posts,       \* _posts/: filename -> [content, run of the write]
    cache,       \* assets/cache/: url -> [state, run of the last write]
    today,       \* the clock, in days
    apiKey,      \* API_KEY is set
    pc,          \* position of main(): idle, fetch, items, write, done
    runNo,       \* number of runs started
    page,        \* fetch_articles: page
    results,     \* fetch_articles: results of the current page
    idx,         \* fetch_articles: index of the next item of results
    collected,   \* fetch_articles: collected
    wi,          \* main: index of the next article to write
    created,     \* main: created
    exitCode,    \* process exit status of the last finished run, -1 before
    ret,         \* value returned by the last write_post, << >> for None
    hist,        \* history: what happened in this run
    tool         \* a body enricher applied to one input: [fn, in, out]

vars == << feed, disk, posts, cache, today, apiKey, pc, runNo, page, results,
           idx, collected, wi, created, exitCode, ret, hist, tool >>

NoPick == [image |-> NoneU, attempts |-> << >>, title |-> << >>, desc |-> << >>]

FreshHist ==
    [apiErr |-> 0,          \* page on which call_api raised, 0 for none
     day0 |-> 0,            \* the day the run started
     raws |-> << >>,        \* raw record of each entry of collected
     written |-> {},        \* raw records a post was written for
     imaged |-> {},         \* raw records pick_image_for_article ran for
     dlFail |-> FALSE,      \* some attempted download did not succeed
     pick |-> NoPick,       \* the last image resolution
     before |-> [posts |-> << >>, cache |-> << >>, clean |-> FALSE]]
                            \* _posts/ and assets/cache/ when the run started, and
                            \* whether the run before it was an undisturbed one

NoTool == [fn |-> "none", in |-> << >>, out |-> -1]

Init ==
    /\ tool = NoTool
    /\ feed \in Feeds
    /\ disk \in StaticAssets
    /\ posts \in InitialPosts
    /\ cache = [u \in HttpUrls |-> NoFile]
    /\ today = 1
    /\ apiKey \in BOOLEAN
    /\ pc = "idle"
    /\ runNo = 0
    /\ page = 1
    /\ results = << >>
    /\ idx = 1
    /\ collected = << >>
    /\ wi = 1
    /\ created = 0
    /\ exitCode = -1
    /\ ret = << >>
    /\ hist = FreshHist


\* ------------------------------------------------------ fetch_articles
\* the five normalised fields of one provider record
Normalize(item) ==
    [title |-> clean_text(safe_get(item, "title")),
     desc |-> clean_text(safe_get(item, "description")),
     content |-> clean_text(safe_get(item, "content")),
     link |-> OrText(clean_text(safe_get(item, "link")), clean_text(safe_get(item, "url"))),
     source_id |-> OrText(clean_text(safe_get(item, "source_id")),
                          clean_text(safe_get(item, "source")))]

\* variant: only the title is required
MissingRequired_titleOnly(title, link) == title = << >>

\* `if not title or not link: continue`
MissingRequired(title, link) == title = << >> \/ link = << >>

\* the paywall test over the three fields
LowValue(n) ==
    has_low_value_markers(n.desc) \/ has_low_value_markers(n.content)
        \/ has_low_value_markers(n.title)

\* `if too_similar(title, desc) and len(desc) < 60: continue`
ThinCopy(n) == too_similar(n.title, n.desc) /\ StrLen(n.desc) < DescMin

\* variant: the copied-title test is missing
Skipped_noThinCopy(item) ==
    LET n == Normalize(item)
    IN  MissingRequired(n.title, n.link) \/ LowValue(n)

Skipped(item) ==
    LET n == Normalize(item)
    IN  MissingRequired(n.title, n.link) \/ LowValue(n) \/ ThinCopy(n)

PubOf(item, day) ==
    OrText(clean_text(safe_get(item, "pubDate")),
           OrText(clean_text(safe_get(item, "published_at")), NowStamp(day)))

item_norm(item, chosen_image, day) ==
    LET n == Normalize(item)
    IN  [title |-> n.title,
         description |-> n.desc,
         content |-> n.content,
         link |-> n.link,
         source_id |-> OrText(n.source_id, << "source" >>),
         image |-> IF chosen_image # NoneU THEN chosen_image ELSE GENERIC_FALLBACK,
         pubDate |-> PubOf(item, day)]

\* main() starts with the key set: ensure_dir, fetch_articles begins
StartRun ==
    /\ pc \in { "idle", "done" }
    /\ runNo < MaxRuns
    /\ apiKey
    /\ runNo' = runNo + 1
    /\ pc' = "fetch"
    /\ page' = 1
    /\ collected' = << >>
    /\ results' = << >>
    /\ idx' = 1
    /\ wi' = 1
    /\ created' = 0
    /\ exitCode' = -1
    /\ hist' = [FreshHist EXCEPT
                  !.day0 = today,
                  !.before = [posts |-> posts, cache |-> cache,
                              clean |-> (runNo >= 1 /\ hist.apiErr = 0 /\ exitCode = 0
                                         /\ ~hist.dlFail /\ hist.day0 = today)]]
    /\ UNCHANGED << tool, feed, disk, posts, cache, today, apiKey, ret >>

\* main() without a key: fetch_articles raises ValueError, main exits 1
StartRunNoKey ==
    /\ pc \in { "idle", "done" }
    /\ runNo < MaxRuns
    /\ ~apiKey
    /\ runNo' = runNo + 1
    /\ pc' = "done"
    /\ exitCode' = 1
    /\ collected' = << >>
    /\ hist' = [FreshHist EXCEPT !.day0 = today]
    /\ UNCHANGED << tool, feed, disk, posts, cache, today, apiKey, page, results, idx,
                    wi, created, ret >>

\* `while len(collected) < limit and page <= 3` is false: return collected[:limit]
FetchDone ==
    /\ pc = "fetch"
    /\ ~(Len(collected) < MAX_POSTS /\ page <= MaxPages)
    /\ pc' = "write"
    /\ collected' = SubSeq(collected, 1, IF Len(collected) < MAX_POSTS
                                          THEN Len(collected) ELSE MAX_POSTS)
    /\ UNCHANGED << tool, feed, disk, posts, cache, today, apiKey, runNo, page, results,
                    idx, wi, created, exitCode, ret, hist >>

\* call_api raises (HTTP error, timeout, no network): logged, loop left
ApiError ==
    /\ pc = "fetch"
    /\ Len(collected) < MAX_POSTS /\ page <= MaxPages
    /\ pc' = "write"
    /\ hist' = [hist EXCEPT !.apiErr = page]
    /\ UNCHANGED << tool, feed, disk, posts, cache, today, apiKey, runNo, page, results,
                    idx, collected, wi, created, exitCode, ret >>

\* call_api returns the page; an empty result list leaves the loop
CallApi ==
    /\ pc = "fetch"
    /\ Len(collected) < MAX_POSTS /\ page <= MaxPages
    /\ results' = feed[page]
    /\ idx' = 1
    /\ pc' = IF feed[page] = << >> THEN "write" ELSE "items"
    /\ UNCHANGED << tool, feed, disk, posts, cache, today, apiKey, runNo, page,
                    collected, wi, created, exitCode, ret, hist >>

\* one iteration of `for item in results` that ends in `continue`
SkipItem ==
    /\ pc = "items"
    /\ idx <= Len(results)
    /\ Len(collected) < MAX_POSTS
    /\ Skipped(results[idx])
    /\ idx' = idx + 1
    /\ UNCHANGED << tool, feed, disk, posts, cache, today, apiKey, pc, runNo, page,
                    results, collected, wi, created, exitCode, ret, hist >>

\* one iteration that resolves the image and appends item_norm
CollectItem ==
    /\ pc = "items"
    /\ idx <= Len(results)
    /\ Len(collected) < MAX_POSTS
    /\ ~Skipped(results[idx])
    /\ \E outs \in [1..4 -> Outcomes] :
         LET item == results[idx]
             n == Normalize(item)
             cands == UrlCandidates(item)
             pk == pick_image_for_article(item, n.title, n.desc, outs, cache, disk, runNo)
         IN  /\ \A i \in 1..4 : cands[i] \notin HttpUrls => outs[i] = "neterr"
             /\ cache' = pk.cache
             /\ collected' = Append(collected, item_norm(item, pk.image, today))
             /\ hist' = [hist EXCEPT
                           !.raws = Append(@, item),
                           !.imaged = @ \cup { item },
                           !.dlFail = @ \/ \E i \in 1..Len(pk.attempts) :
                                                 pk.attempts[i][2] # "ok",
                           !.pick = [image |-> pk.image, attempts |-> pk.attempts,
                                     title |-> n.title, desc |-> n.desc]]
    /\ idx' = idx + 1
    /\ UNCHANGED << tool, feed, disk, posts, today, apiKey, pc, runNo, page, results,
                    wi, created, exitCode, ret >>

\* the for-loop ends (results exhausted or limit reached): page += 1
EndPage ==
    /\ pc = "items"
    /\ idx > Len(results) \/ Len(collected) >= MAX_POSTS
    /\ page' = page + 1
    /\ pc' = "fetch"
    /\ UNCHANGED << tool, feed, disk, posts, cache, today, apiKey, runNo, results, idx,
                    collected, wi, created, exitCode, ret, hist >>

\* `if not articles: sys.exit(0)`
NoArticles ==
    /\ pc = "write"
    /\ collected = << >>
    /\ pc' = "done"
    /\ exitCode' = 0
    /\ UNCHANGED << tool, feed, disk, posts, cache, today, apiKey, runNo, page, results,
                    idx, collected, wi, created, ret, hist >>

\* one iteration of `for art in articles`: write_post(art)
WritePost ==
    /\ pc = "write"
    /\ wi <= Len(collected)
    /\ LET w == write_post(collected[wi], posts, today, runNo)
       IN  /\ posts' = w.dir
           /\ ret' = w.ret
           /\ created' = IF w.ret # << >> THEN created + 1 ELSE created
           /\ hist' = IF w.ret # << >>
                      THEN [hist EXCEPT !.written = @ \cup { hist.raws[wi] }]
                      ELSE hist
    /\ wi' = wi + 1
    /\ UNCHANGED << tool, feed, disk, cache, today, apiKey, pc, runNo, page, results,
                    idx, collected, exitCode >>

\* main returns after the loop: the process exits 0
Finish ==
    /\ pc = "write"
    /\ collected # << >>
    /\ wi > Len(collected)
    /\ pc' = "done"
    /\ exitCode' = 0
    /\ UNCHANGED << tool, feed, disk, posts, cache, today, apiKey, runNo, page, results,
                    idx, collected, wi, created, ret, hist >>

\* midnight passes, between two runs or between the fetch and the writes of a run
Tick ==
    /\ today < MaxDay
    /\ pc \in { "idle", "done" } \/ (pc = "write" /\ wi = 1)
    /\ today' = today + 1
    /\ UNCHANGED << tool, feed, disk, posts, cache, apiKey, pc, runNo, page, results,
                    idx, collected, wi, created, exitCode, ret, hist >>

Next ==
    \/ StartRun
    \/ StartRunNoKey
    \/ FetchDone
    \/ ApiError
    \/ CallApi
    \/ SkipItem
    \/ CollectItem
    \/ EndPage
    \/ NoArticles
    \/ WritePost
    \/ Finish
    \/ Tick

Spec == Init /\ [][Next]_vars


\* =========================================================== properties
Range(q) == { q[i] : i \in 1..Len(q) }

\* the records of this run that were collected or written as a post
Published == Range(hist.raws) \cup hist.written

\* the filename write_post computes for the article main is about to write
PathOfNext == make_filename(collected[wi].title, collected[wi].pubDate, today)

\* C1: when write_post is called for an article whose filename already
\* exists in _posts/, it returns None and leaves _posts/ exactly as it was.
C1_ExistingPostUntouched ==
    [][ (pc = "write" /\ wi <= Len(collected) /\ wi' = wi + 1
            /\ PathOfNext \in DOMAIN posts)
        => (ret' = << >> /\ posts' = posts /\ created' = created) ]_vars

\* C1 witness: write_post has just returned None for an article whose file
\* was written by an earlier run or was there before the first run.
C1_Witness ==
    /\ pc = "write" /\ wi > 1 /\ ret = << >>
    /\ LET a == collected[wi - 1]
           f == make_filename(a.title, a.pubDate, today)
       IN  f \in DOMAIN posts /\ posts[f].run < runNo

\* C2 (as claimed): a second run on the same feed, on the same day, with the
\* provider answering every page and every image download succeeding in both
\* runs, leaves _posts/ and assets/cache/ as the first run left them: no new
\* file and no file written again.
C2_SecondRunChangesNothing ==
    (pc = "done" /\ exitCode = 0 /\ hist.before.clean
        /\ hist.apiErr = 0 /\ ~hist.dlFail /\ hist.day0 = today)
    => (posts = hist.before.posts /\ cache = hist.before.cache)

\* a record whose title or link is missing or blank after normalisation
C3_Missing(r) ==
    \/ clean_text(r.title) = << >>
    \/ clean_text(r.link) = << >> /\ clean_text(r.url) = << >>

\* C3: no record with a missing title or link is ever collected by
\* fetch_articles, and no post is ever written for one.
C3_MissingNeverPublished ==
    /\ \A r \in Published : ~C3_Missing(r)
    /\ \A f \in DOMAIN posts :
         posts[f].run >= 1 =>
            posts[f].content.title # << >> /\ posts[f].content.source_url # << >>

\* C3 witness: the loop has just passed over a record without title or link.
C3_Witness ==
    /\ pc = "items" /\ idx > 1
    /\ C3_Missing(results[idx - 1])
    /\ results[idx - 1] \notin Published

\* a paywall phrase occurs in the text, whatever the case of its letters
C4_HasPhrase(t) ==
    \E m \in markers : \E i \in 1..Len(t) :
        i + Len(m) - 1 <= Len(t)
        /\ \A j \in 1..Len(m) : LowerTok(t[i + j - 1]) = m[j]

\* title + " " + description + " " + content of the normalised record
C4_Combined(r) ==
    LET n == Normalize(r)
    IN  n.title \o << "_" >> \o n.desc \o << "_" >> \o n.content

\* C4 (as claimed): no record whose combined text contains a paywall phrase
\* is collected or written.
C4_CombinedTextRejected ==
    \A r \in Published : ~C4_HasPhrase(C4_Combined(r))

\* one of title, description, content contains a paywall phrase by itself
C4_FieldHasPhrase(r) ==
    LET n == Normalize(r)
    IN  C4_HasPhrase(n.title) \/ C4_HasPhrase(n.desc) \/ C4_HasPhrase(n.content)

\* C4 (amended): no record in which the normalised title, description or
\* content by itself contains a paywall phrase, in any letter case and at any
\* length, is collected or written.
C4_FieldPhraseRejected ==
    \A r \in Published : ~C4_FieldHasPhrase(r)

\* C4 witness: the loop has just passed over a record whose content is longer
\* than the one-liner threshold and contains a paywall phrase.
C4_Witness ==
    /\ pc = "items" /\ idx > 1
    /\ C4_FieldHasPhrase(results[idx - 1])
    /\ StrLen(clean_text(results[idx - 1].content)) >= DescMin
    /\ results[idx - 1] \notin Published

StaticHeroes ==
    { TOPIC_HEROES[k] : k \in DOMAIN TOPIC_HEROES } \cup Range(ROTATE_CANDIDATES)

Picked == hist.pick.title # << >>

AnyDownloadOk ==
    \E i \in 1..Len(hist.pick.attempts) : hist.pick.attempts[i][2] = "ok"

\* C5: every image resolution ends with a non-empty reference, and with the
\* fixed fallback when no download succeeded and no topic or rotating asset
\* is on disk.
C5_AlwaysSomeImage ==
    Picked =>
        /\ hist.pick.image \notin { NoneU, "" }
        /\ (~AnyDownloadOk /\ disk \cap StaticHeroes = {})
              => hist.pick.image = GENERIC_FALLBACK

\* C5 witness: every provider download failed, nothing is on disk, and the
\* resolver answered with the fixed fallback.
C5_Witness ==
    /\ Picked
    /\ Len(hist.pick.attempts) >= 2 /\ ~AnyDownloadOk
    /\ disk \cap StaticHeroes = {}
    /\ hist.pick.image = GENERIC_FALLBACK

TopicOnDisk ==
    LET topic == detect_topic(hist.pick.title, hist.pick.desc)
    IN  topic # NoneU /\ TOPIC_HEROES[topic] \in disk

\* C6: the resolver's answer respects the order provider image, topic hero,
\* rotating hero, fixed fallback: downloads stop at the first success; a topic
\* hero is returned only if no download succeeded; a rotating hero only if in
\* addition the article's topic asset is not on disk; the fixed fallback only
\* if in addition no rotating asset is on disk.
C6_OrderedFallback ==
    Picked =>
        LET img == hist.pick.image
            att == hist.pick.attempts
        IN  /\ \A i \in 1..(Len(att) - 1) : att[i][2] # "ok"
            /\ img \in CachePaths => AnyDownloadOk
            /\ AnyDownloadOk => img \in CachePaths
            /\ img \in { TOPIC_HEROES[k] : k \in DOMAIN TOPIC_HEROES }
                  => ~AnyDownloadOk /\ img \in disk
            /\ img \in Range(ROTATE_CANDIDATES)
                  => ~AnyDownloadOk /\ ~TopicOnDisk /\ img \in disk
            /\ img = GENERIC_FALLBACK
                  => ~AnyDownloadOk /\ ~TopicOnDisk
                     /\ disk \cap Range(ROTATE_CANDIDATES) = {}

\* C6 witness: both provider downloads failed and the topic hero on disk was
\* returned, although a rotating hero is on disk too.
C6_Witness ==
    /\ Picked
    /\ Len(hist.pick.attempts) >= 2 /\ ~AnyDownloadOk
    /\ hist.pick.image = TOPIC_HEROES.chips
    /\ disk \cap Range(ROTATE_CANDIDATES) # {}

\* C7 (as claimed): the front-matter date of every post the pipeline wrote is
\* the date prefix of its filename, i.e. the date of the article's pubDate.
C7_DateIsPublishedDate ==
    \A f \in DOMAIN posts :
        posts[f].run >= 1 => posts[f].content.date = << f[1] >>

\* C8 (as claimed): no two posts written by the pipeline have the same source
\* link and titles that differ only in letter case and whitespace.
C8_OnePostPerLink ==
    \A f, g \in DOMAIN posts :
        (/\ posts[f].run >= 1 /\ posts[g].run >= 1
         /\ posts[f].content.source_url = posts[g].content.source_url
         /\ lower(posts[f].content.title) = lower(posts[g].content.title))
        => f = g

\* C10 (as claimed): a run whose first call_api fails ends with a non-zero
\* exit status.
C10_FetchFailureExitsNonZero ==
    (pc = "done" /\ hist.apiErr = 1) => exitCode # 0


\* KEYWORDS of update_posts.py, the terms of the provider query
KEYWORDS ==
    { << "ai" >>, << "artificial", "_", "intelligence" >>,
      << "machine", "_", "learning" >>, << "openai" >>, << "anthropic" >>,
      << "meta", "_", "ai" >>, << "google", "_", "ai" >> }

\* title + " " + description of the record mentions a keyword
C11_Relevant(r) ==
    LET n == Normalize(r)
    IN  \E k \in KEYWORDS : Contains(lower(n.title \o << "_" >> \o n.desc), k)

\* C11 (as claimed): every record a post was written for mentions at least
\* one keyword of the keyword set in its title + description.
C11_OnlyRelevantWritten ==
    \A r \in hist.written : C11_Relevant(r)

\* the description is shorter than 60 characters and it and the title are
\* equal or contained in one another, letter case and spacing aside
C12_ThinCopy(r) ==
    LET n == Normalize(r)
        t == lower(n.title)
        d == lower(n.desc)
    IN  /\ StrLen(n.desc) < DescMin
        /\ \/ t = d
           \/ t # << >> /\ d # << >> /\ (Contains(t, d) \/ Contains(d, t))

C12_Rejected(r) == C3_Missing(r) \/ C4_FieldHasPhrase(r) \/ C12_ThinCopy(r)

HasHttpImage(r) == \E i \in 1..4 : UrlCandidates(r)[i] \in HttpUrls

\* C12: the loop iteration of a record that normalisation or the quality
\* filter rejects (no title or link, paywall phrase in a field, short
\* description copied from the title) resolves no image and downloads
\* nothing: the cache directory and the record of image resolutions are
\* left as they were.
C12_FilterBeforeImage ==
    [][ (pc = "items" /\ idx <= Len(results) /\ idx' = idx + 1
            /\ C12_Rejected(results[idx]))
        => (cache' = cache /\ hist'.imaged = hist.imaged
            /\ hist'.pick = hist.pick /\ collected' = collected) ]_vars

\* C12 witness: the loop has just passed over a rejected record that carries
\* a provider image URL; nothing was downloaded and no image was resolved.
C12_Witness ==
    /\ pc = "items" /\ idx > 1
    /\ C12_ThinCopy(results[idx - 1])
    /\ HasHttpImage(results[idx - 1])
    /\ results[idx - 1] \notin hist.imaged
    /\ \A u \in HttpUrls : cache[u] = NoFile

\* the last download tried for this URL in the last image resolution
LastAttempt(u) ==
    LET att == hist.pick.attempts
        is == { i \in 1..Len(att) : att[i][1] = u }
    IN  IF is = {} THEN "none"
        ELSE att[CHOOSE i \in is : \A j \in is : j <= i][2]

\* C15: a download that exceeds the size cap returns no path and leaves no
\* file of its own in the cache, and the resolver goes on to the next
\* candidate or tier: the image it returns is a cache path only if a download
\* succeeded.
C15_OversizedDownloadDropped ==
    Picked =>
        /\ \A u \in HttpUrls :
              LastAttempt(u) = "toobig" =>
                 cache[u] = NoFile /\ hist.pick.image # CachePath(u)
        /\ hist.pick.image \in CachePaths => AnyDownloadOk

\* C15 witness: the only provider image was over the cap; no file is left
\* and the resolver answered from a later tier.
C15_Witness ==
    /\ Picked
    /\ \E u \in HttpUrls : LastAttempt(u) = "toobig" /\ cache[u] = NoFile
    /\ hist.pick.image \notin CachePaths

\* C17 (as claimed): an image resolution whose download of a URL returned
\* None, whatever the reason, puts no partially written file of that download
\* into the cache.
C17_NoPartialFileAfterFailure ==
    [][ \A u \in HttpUrls :
          (/\ hist'.pick # hist.pick
           /\ LastAttempt(u)' \notin { "none", "ok" }
           /\ cache[u].state # "partial")
          => cache'[u].state # "partial" ]_vars

\* ============================================================ enrichers
\* The two body builders are modelled on lengths.  A text is a sequence of
\* segments [n |-> characters, colon |-> ends with ":"]: the lines of the raw
\* content for expand_article, the sentences (split at ". ") of the base text
\* for enrich_text.  Texts are taken as already stripped of HTML and of
\* leading and trailing blanks, with non-empty lines.

MIN_BODY_CHARS_rehydrate == 500
P1TailLen == 103       \* ". This article looks at ... right now."
P1DefaultLen == 72     \* "This article highlights ... intelligence."
P2TailLen == 134       \* "Beyond the headline, ... integration."
P2DefaultLen == 86     \* "In short, the announcement ... AI stack."
P2SliceLen == 300
P2SliceMin == 320
KeyPointsLen == 16     \* "**Key points:**\n"
P4HeadLen == 83        \* "Looking ahead, ... deployments. Source: "
ExtraMax == 600
BulletMin == 40
BulletMax == 160

RECURSIVE SumN(_)
SumN(segs) == IF segs = << >> THEN 0 ELSE Head(segs).n + SumN(Tail(segs))

\* len() of a text of segments joined by separators of `sep` characters
TextLen(segs, sep) ==
    IF segs = << >> THEN 0 ELSE SumN(segs) + sep * (Len(segs) - 1)

Min(a, b) == IF a < b THEN a ELSE b

\* the bullets loop of expand_article: lines of sentence-like length that do
\* not end with ":", until five are found
RECURSIVE ExpandBullets(_, _)
ExpandBullets(lines, found) ==
    IF lines = << >> THEN found
    ELSE LET L == Head(lines)
             f == IF BulletMin <= L.n /\ L.n <= BulletMax /\ ~L.colon
                  THEN Append(found, L) ELSE found
         IN  IF Len(f) >= 5 THEN f ELSE ExpandBullets(Tail(lines), f)

\* variant: the tail of the raw content is never appended
expand_article_notail(t, d, c, sourceLen) ==
    LET cl == TextLen(c, 1)
        bullets == ExpandBullets(c, << >>)
        items == SubSeq(bullets, 1, Min(4, Len(bullets)))
        p1 == IF t.n > 0 THEN t.n + P1TailLen ELSE P1DefaultLen
        p2 == IF d.n > 0 /\ ~d.http THEN d.n + 1 + P2TailLen
              ELSE IF cl > P2SliceMin THEN P2SliceLen + 3 ELSE P2DefaultLen
        p3 == IF items = << >> THEN 0
              ELSE KeyPointsLen + SumN(items) + 2 * Len(items) + (Len(items) - 1)
        p4 == P4HeadLen + sourceLen + 1
    IN  p1 + 2 + p2 + (IF p3 > 0 THEN 2 + p3 ELSE 0) + 2 + p4

\* len(expand_article(title, description, raw_content, source))
expand_article(t, d, c, sourceLen) ==
    LET cl == TextLen(c, 1)
        bullets == ExpandBullets(c, << >>)
        items == SubSeq(bullets, 1, Min(4, Len(bullets)))
        p1 == IF t.n > 0 THEN t.n + P1TailLen ELSE P1DefaultLen
        p2 == IF d.n > 0 /\ ~d.http THEN d.n + 1 + P2TailLen
              ELSE IF cl > P2SliceMin THEN P2SliceLen + 3 ELSE P2DefaultLen
        p3 == IF items = << >> THEN 0
              ELSE KeyPointsLen + SumN(items) + 2 * Len(items) + (Len(items) - 1)
        p4 == P4HeadLen + sourceLen + 1
        body == p1 + 2 + p2 + (IF p3 > 0 THEN 2 + p3 ELSE 0) + 2 + p4
    IN  IF body < MIN_BODY_CHARS_rehydrate /\ cl > 0
        THEN body + 2 + Min(cl, ExtraMax) + 3
        ELSE body

BaseMax == 700
TldrMax == 240
EllipsisLen == 3       \* the ellipsis literal of shorten, as stored in the file
TldrHeadLen == 9       \* "### TL;DR"
TldrDefaultLen == 59   \* "Resumo breve ..."
WhyHeadLen == 20       \* "\n### Por que importa"
DetailsHeadLen == 22   \* "\n### Detalhes ..."
FonteLen == 10         \* "\n> Fonte: "
EnrichBulletMin == 25
EnrichBulletMax == 220

WhyLen ==
    [markets |-> 50, policy |-> 63, chips |-> 64, research |-> 58, none |-> 55]

\* s[:room] of a text of sentences joined by ". ", followed by rstrip and the
\* ellipsis; the cut is taken not to follow a blank inside a sentence
RECURSIVE CutText(_, _)
CutText(segs, room) ==
    LET h == Head(segs)
    IN  IF Len(segs) = 1 \/ h.n >= room
        THEN << [h EXCEPT !.n = Min(h.n, room) + EllipsisLen] >>
        ELSE IF h.n + 2 >= room      \* cut after "." or after ". "
        THEN << [h EXCEPT !.n = h.n + 1 + EllipsisLen] >>
        ELSE << h >> \o CutText(Tail(segs), room - h.n - 2)

shorten(segs, max_len) ==
    IF TextLen(segs, 2) <= max_len THEN segs ELSE CutText(segs, max_len - 1)

\* len(enrich_text(title, desc, content, source, link))
enrich_text(t, d, c, sourceLen, linkLen) ==
    LET descText == IF d.n > 0 THEN << [n |-> d.n, colon |-> FALSE] >> ELSE << >>
        base == shorten(IF c # << >> THEN c ELSE descText, BaseMax)
        why == IF t.groups = {} THEN { "none" } ELSE t.groups
        first4 == SubSeq(base, 1, Min(4, Len(base)))
        bullets == SelectSeq(first4,
                       LAMBDA b : EnrichBulletMin <= b.n /\ b.n <= EnrichBulletMax)
        tldr == IF base = << >> THEN TldrDefaultLen
                ELSE TextLen(shorten(base, TldrMax), 2)
        RECURSIVE SumWhy(_)
        SumWhy(S) == IF S = {} THEN 0
                     ELSE LET w == CHOOSE x \in S : TRUE
                          IN  2 + WhyLen[w] + SumWhy(S \ { w })
        pieces == 3 + Cardinality(why)
                  + (IF bullets = << >> THEN 0 ELSE 1 + Len(bullets)) + 2
    IN  TldrHeadLen + tldr + WhyHeadLen + SumWhy(why)
        + (IF bullets = << >> THEN 0
           ELSE DetailsHeadLen + SumN(bullets) + 2 * Len(bullets))
        + FonteLen + (sourceLen + linkLen + 4)
        + (pieces - 1)

Seg(n) == [n |-> n, colon |-> FALSE]

EnrichTitles ==
    { [n |-> 0, groups |-> {}], [n |-> 22, groups |-> {}],
      [n |-> 40, groups |-> { "policy", "chips" }],
      [n |-> 60, groups |-> { "markets", "policy", "chips", "research" }] }

EnrichDescs ==
    { [n |-> 0, http |-> FALSE], [n |-> 11, http |-> FALSE],
      [n |-> 30, http |-> TRUE], [n |-> 150, http |-> FALSE],
      [n |-> 400, http |-> FALSE] }

EnrichContents ==
    { << >>,
      << Seg(10) >>,
      << Seg(30), Seg(40) >>,
      << Seg(50), [n |-> 45, colon |-> TRUE], Seg(170) >>,
      << Seg(330) >>,
      << Seg(300), Seg(500) >>,
      << Seg(50), Seg(60), Seg(70), Seg(80), Seg(90), Seg(100) >>,
      << Seg(220), Seg(220), Seg(220), Seg(220) >> }

EnrichInputs ==
    { [title |-> t, desc |-> d, content |-> c, source |-> 6, link |-> 20] :
        t \in EnrichTitles, d \in EnrichDescs, c \in EnrichContents }

InitEnrich ==
    /\ tool \in { [fn |-> "none", in |-> i, out |-> -1] : i \in EnrichInputs }
    /\ feed = << << >>, << >>, << >> >>
    /\ disk = {}
    /\ posts = << >>
    /\ cache = [u \in HttpUrls |-> NoFile]
    /\ today = 1
    /\ apiKey = TRUE
    /\ pc = "idle"
    /\ runNo = 0
    /\ page = 1
    /\ results = << >>
    /\ idx = 1
    /\ collected = << >>
    /\ wi = 1
    /\ created = 0
    /\ exitCode = -1
    /\ ret = << >>
    /\ hist = FreshHist

PipelineVars ==
    << feed, disk, posts, cache, today, apiKey, pc, runNo, page, results, idx,
       collected, wi, created, exitCode, ret, hist >>

\* rehydrate_posts.expand_article applied to the input
ExpandArticle ==
    /\ tool.fn = "none"
    /\ tool' = [tool EXCEPT
                  !.fn = "expand_article",
                  !.out = expand_article(tool.in.title, tool.in.desc,
                                         tool.in.content, tool.in.source)]
    /\ UNCHANGED PipelineVars

\* update_posts.enrich_text applied to the input
EnrichText ==
    /\ tool.fn = "none"
    /\ tool' = [tool EXCEPT
                  !.fn = "enrich_text",
                  !.out = enrich_text(tool.in.title, tool.in.desc, tool.in.content,
                                      tool.in.source, tool.in.link)]
    /\ UNCHANGED PipelineVars

NextEnrich ==
    \/ ExpandArticle
    \/ EnrichText

SpecEnrich == InitEnrich /\ [][NextEnrich]_vars

\* some raw content or description exists
C9_HasText == tool.in.desc.n > 0 \/ tool.in.content # << >>

\* C9 (as claimed): whenever a description or raw content exists, the body
\* returned by expand_article or enrich_text has at least 500 characters.
C9_EnrichmentFloor ==
    (tool.fn # "none" /\ C9_HasText) => tool.out >= MIN_BODY_CHARS_rehydrate

\* ======================================================== repair_posts.py
\* Tokens of this part: "Q" is the double quote, "BS" the backslash, ":" the
\* colon, "<" and ">" the angle brackets, "NL" the newline; "about", "endq",
\* "readmore", "[", "](", ")." and "autogen" are the fixed pieces of the
\* fallback paragraph.

MaxRepairs == 3     \* calls of repair_file on one file

MIN_BODY_CHARS_repair == 60

BAD_PHRASES ==
    { << "ONLY", "_", "AVAILABLE", "_", "IN", "_", "PAID", "_", "PLAN", "S" >>,
      << "Only", "_", "available", "_", "in", "_", "paid", "_", "plan", "s" >>,
      << "Only", "_", "available", "_", "in", "_", "paid", "_", "plan" >> }

Whitespace == { "_", "NL" }

\* str.strip()
RECURSIVE StripWs(_)
StripWs(s) ==
    IF s = << >> THEN s
    ELSE IF Head(s) \in Whitespace THEN StripWs(Tail(s))
    ELSE IF s[Len(s)] \in Whitespace THEN StripWs(SubSeq(s, 1, Len(s) - 1))
    ELSE s

\* TAG_RE.sub("", s): every "<", one or more characters other than ">", ">"
RECURSIVE StripTags(_)
StripTags(s) ==
    IF s = << >> THEN s
    ELSE IF Head(s) = "<"
    THEN LET closes == { j \in 3..Len(s) :
                            s[j] = ">" /\ \A k \in 2..(j - 1) : s[k] # ">" }
         IN  IF closes # {}
             THEN StripTags(SubSeq(s, (CHOOSE j \in closes : TRUE) + 1, Len(s)))
             ELSE << "<" >> \o StripTags(Tail(s))
    ELSE << Head(s) >> \o StripTags(Tail(s))

clean_len(s) == StrLen(StripTags(StripWs(s)))

needs_repair(body) ==
    \/ clean_len(body) < MIN_BODY_CHARS_repair
    \/ \E bad \in BAD_PHRASES : Contains(lower(body), lower(bad))

\* a front matter is a sequence of lines [k, v]; dict.get(k, default)
FmGet(fm, k, default) ==
    LET is == { i \in 1..Len(fm) : fm[i].k = k }
    IN  IF is = {} THEN default
        ELSE fm[CHOOSE i \in is : \A j \in is : j <= i].v

Quoted(v) == v # << >> /\ Head(v) = "Q" /\ v[Len(v)] = "Q"

\* the value of one "key: value" line as parse_front_matter reads it
ParseValue(raw) ==
    LET v == StripWs(raw)
    IN  IF Quoted(v) THEN SubSeq(v, 2, Len(v) - 1) ELSE v

parse_front_matter_repair(yaml) ==
    [i \in 1..Len(yaml) |-> [k |-> yaml[i].k, v |-> ParseValue(yaml[i].v)]]

\* v.replace('"', '\\"')
RECURSIVE EscapeQuotes(_)
EscapeQuotes(v) ==
    IF v = << >> THEN v
    ELSE (IF Head(v) = "Q" THEN << "BS", "Q" >> ELSE << Head(v) >>)
            \o EscapeQuotes(Tail(v))

\* the text after "key:" that serialize_front_matter writes for a value
SerializeValue(v) ==
    << "_" >> \o
    (IF ~Quoted(v) /\ (\E i \in 1..Len(v) : v[i] \in { ":", "Q" })
     THEN << "Q" >> \o EscapeQuotes(v) \o << "Q" >>
     ELSE v)

serialize_front_matter(fm) ==
    [i \in 1..Len(fm) |-> [k |-> fm[i].k, v |-> SerializeValue(fm[i].v)]]

fallback_paragraph(fm) ==
    LET title   == FmGet(fm, "title", << "AI", "_", "news" >>)
        source  == OrText(FmGet(fm, "source", << >>), FmGet(fm, "source_id", << >>))
        link    == FmGet(fm, "link", << >>)
        excerpt == FmGet(fm, "excerpt", << >>)
        bit1 == IF excerpt # << >> THEN StripWs(excerpt)
                ELSE << "about" >> \o title \o << "endq" >>
        bit2 == IF source # << >> /\ link # << >>
                THEN << "_", "readmore", "_", "[" >> \o source \o << "](" >>
                        \o link \o << ")." >>
                ELSE IF link # << >>
                THEN << "_", "readmore", "_", "[" >> \o link \o << "](" >>
                        \o link \o << ")." >>
                ELSE << >>
        para == StripWs(bit1 \o bit2)
        padded == IF clean_len(para) < MIN_BODY_CHARS_repair
                  THEN para \o << "_", "autogen" >>
                  ELSE para
    IN  StripWs(padded)

TitleTok(tok) ==
    CASE tok = "only"      -> "Only"
      [] tok = "available" -> "Available"
      [] tok = "in"        -> "In"
      [] tok = "paid"      -> "Paid"
      [] tok = "plan"      -> "Plan"
      [] tok = "post"      -> "Post"
      [] OTHER             -> tok

\* p.stem.replace("-", " ").title()
StemTitle(stem) ==
    LET w == [i \in 1..Len(stem) |-> IF stem[i] = "-" THEN "_" ELSE stem[i]]
    IN  [i \in 1..Len(w) |->
            IF i = 1 \/ w[i - 1] = "_" THEN TitleTok(w[i]) ELSE LowerTok(w[i])]

\* a post file: has_fm says whether FRONT_RE matches its text, yaml holds
\* the lines of the front matter block and body the text after it (the
\* whole text when there is no front matter)
repair_file(f) ==
    IF ~f.has_fm
    THEN LET fm == << [k |-> "title", v |-> StemTitle(f.stem)] >>
         IN  [ret |-> TRUE,
              file |-> [f EXCEPT !.has_fm = TRUE,
                                 !.yaml = serialize_front_matter(fm),
                                 !.body = fallback_paragraph(fm) \o << "NL" >>]]
    ELSE LET fm == parse_front_matter_repair(f.yaml)
         IN  IF ~needs_repair(f.body)
             THEN [ret |-> FALSE, file |-> f]
             ELSE [ret |-> TRUE,
                   file |-> [f EXCEPT !.yaml = serialize_front_matter(fm),
                                      !.body = fallback_paragraph(fm) \o << "NL" >>]]

PaidPlans ==
    << "Only", "_", "available", "_", "in", "_", "paid", "_", "plan", "s" >>

RepairTitles ==
    { << "_", "ai", "_", "law" >>,
      << "_", "Q", "ai", ":", "_", "law", "Q" >>,
      << "_" >> \o PaidPlans }

RepairExcerpts ==
    { << >>,
      << "_", "gpu" >>,
      << "_", "long" >>,
      << "_" >> \o PaidPlans,
      << "_", "long", "_", "ONLY", "_", "AVAILABLE", "_", "IN", "_", "PAID",
         "_", "PLAN", "S" >>,
      << "_", "say", "_", "Q", "gpu", "Q", ":", "_", "long" >>,
      << "_", "<", "long", ">" >>,
      << "_", "long", "<" >> }

RepairLinks ==
    { << "_", "http", ":", "url" >>, << "_", "http", ":", "a", ">", "b" >> }

RepairBodies ==
    { << >>,
      << "gpu", "NL" >>,
      << "long", "NL", "gpu", "NL" >>,
      << "long", "_" >> \o PaidPlans \o << "NL" >>,
      << "<", "long", ">", "NL" >> }

Line(key, vals) == { << >> } \cup { << [k |-> key, v |-> v] >> : v \in vals }

RepairFiles ==
    { [has_fm |-> TRUE, yaml |-> t \o e \o s \o l, body |-> b, stem |-> << "post" >>] :
        t \in Line("title", RepairTitles), e \in Line("excerpt", RepairExcerpts),
        s \in Line("source", { << "_", "wired" >> }), l \in Line("link", RepairLinks),
        b \in RepairBodies }
    \cup
    { [has_fm |-> FALSE, yaml |-> << >>, body |-> b, stem |-> st] :
        b \in { << "long", "NL" >>, << >> },
        st \in { << "post" >>,
                 << "only", "-", "available", "-", "in", "-", "paid", "-",
                    "plan", "s" >> } }

PipelineIdle ==
    /\ feed = << << >>, << >>, << >> >>
    /\ disk = {}
    /\ posts = << >>
    /\ cache = [u \in HttpUrls |-> NoFile]
    /\ today = 1
    /\ apiKey = TRUE
    /\ pc = "idle"
    /\ runNo = 0
    /\ page = 1
    /\ results = << >>
    /\ idx = 1
    /\ collected = << >>
    /\ wi = 1
    /\ created = 0
    /\ exitCode = -1
    /\ ret = << >>
    /\ hist = FreshHist

InitRepair ==
    /\ tool \in { [fn |-> "repair_posts", file |-> f, calls |-> 0,
                   ret |-> FALSE, prev |-> f] : f \in RepairFiles }
    /\ PipelineIdle

\* one call of repair_file on the file
RepairFile ==
    /\ tool.fn = "repair_posts"
    /\ tool.calls < MaxRepairs
    /\ LET r == repair_file(tool.file)
       IN  tool' = [tool EXCEPT !.file = r.file, !.ret = r.ret,
                                !.calls = tool.calls + 1, !.prev = tool.file]
    /\ UNCHANGED PipelineVars

NextRepair == RepairFile

SpecRepair == InitRepair /\ [][NextRepair]_vars

\* C13 (as claimed): after a call of repair_file that rewrote the post, the
\* body of the file no longer needs repair: its cleaned length is at least
\* MIN_BODY_CHARS and it contains none of BAD_PHRASES.
C13_RepairedBodyNeedsNoRepair ==
    (tool.calls >= 1 /\ tool.ret) => ~needs_repair(tool.file.body)

\* the length half of C13 alone
C13_RepairedBodyLongEnough ==
    (tool.calls >= 1 /\ tool.ret) => clean_len(tool.file.body) >= MIN_BODY_CHARS_repair

\* ===================================================== rehydrate_posts.py
\* Text of this part is a sequence of pieces [k, a, b]: the characters a..b
\* of the string named k.  The characters the script treats specially are
\* pieces of their own (space, newline, "-", "*", ":", the double quote, an
\* HTML tag "<b>", a line break "<br>"); every other piece is a stretch of
\* a fixed string of the script (P1T, P2T, ...), of a banned phrase, or of
\* a run of the letter x (k = "x", a = 1, b = its length).  The spaces and
\* the hyphen inside the fixed strings are part of their pieces: the script
\* cuts a text only on the right and puts "..." after the cut, so no such
\* character ever comes to stand at the end of a line or next to white space.
\* Cutting a text at a character position cuts a piece; pieces that continue
\* one another are joined again by Merge, so that equal texts are equal
\* sequences.

W(k, a, b) == [k |-> k, a |-> a, b |-> b]
X(n)  == W("x", 1, n)
Sp    == W("sp", 1, 1)
Nl    == W("nl", 1, 1)
Dash  == W("dash", 1, 1)
Star  == W("star", 1, 1)
Colon == W("colon", 1, 1)
QuoteCh == W("quote", 1, 1)
Tag   == W("tag", 1, 3)      \* "<b>"
Br    == W("br", 1, 4)       \* "<br>"
Http  == W("http", 1, 4)     \* "http"
Dot   == W("dot", 1, 1)      \* "."
Ell   == W("ell", 1, 3)      \* "..."

\* '. This article looks at why this story matters for the AI ecosystem and what you should know right now.' (103 characters)
P1Tail ==
    << W("P1T", 1, 103) >>

\* 'This article highlights a recent development in artificial intelligence.' (72 characters)
P1Default ==
    << W("P1D", 1, 72) >>

\* ' Beyond the headline, the update ties into broader momentum around practical AI adoption, model efficiency, and real-world integration.' (135 characters)
P2Tail ==
    << Sp, W("P2T", 2, 135) >>

\* 'In short, the announcement reflects the steady pace of innovation across the AI stack.' (86 characters)
P2Default ==
    << W("P2D", 1, 86) >>

\* '**Key points:**' (15 characters)
KeyPoints ==
    << Star, Star, W("KP", 3, 12), Colon, Star, Star >>

\* 'Looking ahead, we expect ongoing iteration and more practical deployments. Source: ' (83 characters)
P4Head ==
    << W("P4H", 1, 81), Colon, Sp >>

\* 'ONLY AVAILABLE IN PAID PLANS' (28 characters)
BanUpper ==
    << W("BANU", 1, 28) >>

\* 'Only available in paid plans' (28 characters)
BanPaid ==
    << W("BANP", 1, 28) >>

\* 'Only for subscribers' (20 characters)
BanSubs ==
    << W("BANS", 1, 20) >>

\* The operators below evaluate each text once, with Bind, before they look
\* at its pieces.

\* the sequence f as a tuple of evaluated elements
Tuple(f) == f \o << >>

\* F(v), with v evaluated once
Bind(v, F(_)) == CHOOSE r \in { F(x) : x \in { v } } : TRUE

PieceLen(p) == p.b - p.a + 1

\* len(s)
RECURSIVE TokLen(_)
TokLen(s0) ==
    Bind(s0, LAMBDA s :
        IF s = << >> THEN 0
        ELSE IF Len(s) = 1 THEN PieceLen(s[1])
        ELSE TokLen(SubSeq(s, 1, Len(s) \div 2))
                + TokLen(SubSeq(s, Len(s) \div 2 + 1, Len(s))))

\* the pieces of s at the positions that satisfy keep, in order
Pick(s, keep(_)) ==
    Bind(SelectSeq([i \in 1..Len(s) |-> i], keep), LAMBDA kept :
        Tuple([j \in 1..Len(kept) |-> s[kept[j]]]))

\* piece q continues piece p
Continues(p, q) ==
    \/ p.k = "x" /\ q.k = "x"
    \/ /\ p.k = q.k
       /\ q.a = p.b + 1

\* the text as Python holds it: pieces that continue one another are one
Merge(s0) ==
    Bind(s0, LAMBDA s :
    Bind(SelectSeq([i \in 1..Len(s) |-> i],
                   LAMBDA i : i = 1 \/ ~Continues(s[i - 1], s[i])), LAMBDA starts :
        LET last(j) == IF j = Len(starts) THEN Len(s) ELSE starts[j + 1] - 1
        IN  Tuple([j \in 1..Len(starts) |->
                      IF s[starts[j]].k = "x"
                      THEN X(TokLen(SubSeq(s, starts[j], last(j))))
                      ELSE W(s[starts[j]].k, s[starts[j]].a, s[last(j)].b)])))

\* s[:n]
Slice(s0, n) ==
    Bind(s0, LAMBDA s :
        LET whole == { i \in 0..Len(s) : TokLen(SubSeq(s, 1, i)) <= n }
            k     == CHOOSE i \in whole : \A m \in whole : m <= i
            rest  == n - TokLen(SubSeq(s, 1, k))
        IN  SubSeq(s, 1, k) \o
            (IF k < Len(s) /\ rest > 0
             THEN << W(s[k + 1].k, s[k + 1].a, s[k + 1].a + rest - 1) >>
             ELSE << >>))

\* s.strip(chars), chars given as the kinds of the pieces to strip
StripKinds(s0, kinds) ==
    Bind(s0, LAMBDA s :
    Bind({ i \in 1..Len(s) : s[i].k \notin kinds }, LAMBDA keep :
        IF keep = {} THEN << >>
        ELSE SubSeq(s, CHOOSE i \in keep : \A m \in keep : i <= m,
                       CHOOSE i \in keep : \A m \in keep : m <= i)))

IsWs(p) == p.k \in { "sp", "nl" }

\* str.strip()
StripTok(s) == StripKinds(s, { "sp", "nl" })

\* line.strip(" •-*–—\t")
BulletStrip(s) == StripKinds(s, { "sp", "dash", "star" })

\* re.sub(r"\n{3,}", "\n\n", s)
CollapseNewlines(s0) ==
    Bind(s0, LAMBDA s :
        Pick(s, LAMBDA i : ~(/\ i + 2 <= Len(s)
                             /\ s[i].k = "nl" /\ s[i + 1].k = "nl"
                             /\ s[i + 2].k = "nl")))

\* re.sub(r"\s+", " ", s)
CollapseSpace(s0) ==
    Bind(s0, LAMBDA s :
    Bind(Pick(s, LAMBDA i : ~(IsWs(s[i]) /\ i + 1 <= Len(s) /\ IsWs(s[i + 1]))),
         LAMBDA one :
        Tuple([i \in 1..Len(one) |-> IF IsWs(one[i]) THEN Sp ELSE one[i]])))

\* s.split("\n")
RECURSIVE SplitLines(_)
SplitLines(s0) ==
    Bind(s0, LAMBDA s :
    Bind({ i \in 1..Len(s) : s[i].k = "nl" }, LAMBDA is :
        IF is = {} THEN << s >>
        ELSE Bind(CHOOSE j \in is : \A m \in is : j <= m, LAMBDA i :
                  << SubSeq(s, 1, i - 1) >> \o SplitLines(SubSeq(s, i + 1, Len(s))))))

BANNED_PHRASES == { BanUpper, BanPaid, BanSubs }

\* the piece with its letters in lower case
Fold(p) == IF p.k = "BANU" THEN [p EXCEPT !.k = "BANP"] ELSE p

FoldAll(s0) == Bind(s0, LAMBDA s : Tuple([i \in 1..Len(s) |-> Fold(s[i])]))

\* b.lower() in body.lower()
ContainsPhrase(s, ph) ==
    Bind(FoldAll(Merge(s)), LAMBDA f :
    Bind(FoldAll(ph), LAMBDA g : Contains(f, g)))

\* re.sub(re.escape(ph), "", s, flags=re.I); a phrase cannot overlap itself
RemoveMatches(s0, ph) ==
    Bind(s0, LAMBDA s :
    Bind(FoldAll(s), LAMBDA f :
    Bind(FoldAll(ph), LAMBDA g :
    Bind({ m \in 1..(Len(s) - Len(g) + 1) : SubSeq(f, m, m + Len(g) - 1) = g },
         LAMBDA ms :
        Pick(s, LAMBDA i : ~\E m \in ms : m <= i /\ i < m + Len(g))))))

RemovePhrase(s, ph) == Merge(RemoveMatches(Merge(s), ph))

\* the orders in which a loop over the set BANNED_PHRASES can visit it
PhraseOrders ==
    { o \in [1..3 -> BANNED_PHRASES] : \A i, j \in 1..3 : i # j => o[i] # o[j] }

clean_body(body, order) ==
    Bind(RemovePhrase(body, order[1]), LAMBDA b1 :
    Bind(RemovePhrase(b1, order[2]), LAMBDA b2 :
    Bind(RemovePhrase(b2, order[3]), LAMBDA b3 :
        StripTok(CollapseNewlines(b3)))))

needs_rehydrate(body0) ==
    Bind(body0, LAMBDA body :
        \/ TokLen(StripTok(body)) < MIN_BODY_CHARS_rehydrate
        \/ \E ph \in BANNED_PHRASES : ContainsPhrase(body, ph))

strip_html(s0) ==
    Bind(s0, LAMBDA s :
    Bind(Tuple([i \in 1..Len(s) |-> IF s[i].k = "br" THEN Nl ELSE s[i]]),
         LAMBDA brs :
        StripTok(Merge(SelectSeq(brs, LAMBDA p : p.k # "tag")))))

RECURSIVE JoinTok(_, _)
JoinTok(parts0, sep) ==
    Bind(parts0, LAMBDA parts :
        IF parts = << >> THEN << >>
        ELSE IF Len(parts) = 1 THEN parts[1]
        ELSE parts[1] \o sep \o JoinTok(Tail(parts), sep))

\* a stripped line that qualifies as a key point
IsBullet(L) ==
    /\ TokLen(L) >= BulletMin
    /\ TokLen(L) <= BulletMax
    /\ ~(L # << >> /\ L[Len(L)].k = "colon")

\* the lines of c that become key points
Bullets(c) ==
    Bind(SplitLines(c), LAMBDA lines :
    Bind(Tuple([i \in 1..Len(lines) |-> BulletStrip(lines[i])]), LAMBDA strp :
    Bind(SelectSeq(strp, IsBullet), LAMBDA all :
        SubSeq(all, 1, Min(4, Len(all))))))

\* the paragraphs of expand_article for the cleaned t, d and c
ExpandParts(t, d, c, source, bullets) ==
    LET p1 == IF t # << >> THEN t \o P1Tail ELSE P1Default
        p2 == IF d # << >> /\ ~(Head(d).k = "http" /\ Head(d).a = 1 /\ Head(d).b >= 4)
              THEN d \o P2Tail
              ELSE IF c # << >> /\ TokLen(c) > P2SliceMin
                   THEN Slice(c, P2SliceLen) \o << Ell >>
                   ELSE P2Default
        p3 == KeyPoints \o << Nl >> \o
              JoinTok(Tuple([i \in 1..Len(bullets) |-> << Dash, Sp >> \o bullets[i]]),
                      << Nl >>)
        p4 == P4Head \o source \o << Dot >>
    IN  << p1, p2 >> \o (IF bullets # << >> THEN << p3 >> ELSE << >>) \o << p4 >>

expand_article_tok(title, description, raw_content, source0) ==
    Bind(strip_html(title), LAMBDA t :
    Bind(strip_html(description), LAMBDA d :
    Bind(strip_html(raw_content), LAMBDA c :
    Bind(source0, LAMBDA source :
    Bind(Bullets(c), LAMBDA bullets :
    Bind(StripTok(CollapseNewlines(Merge(
             JoinTok(ExpandParts(t, d, c, source, bullets), << Nl, Nl >>)))),
         LAMBDA body :
        IF TokLen(body) < MIN_BODY_CHARS_rehydrate /\ c # << >>
        THEN Merge(body \o << Nl, Nl >>
                   \o Slice(StripTok(CollapseSpace(c)), ExtraMax) \o << Ell >>)
        ELSE body))))))

\* v.strip().strip('"') of parse_front_matter and the .strip() of its caller
MetaValue(raw) == StripTok(StripKinds(StripTok(raw), { "quote" }))

\* new_body of rehydrate_file for the cleaned body
NewBody(f, body) ==
    Bind(expand_article_tok(MetaValue(f.title), MetaValue(f.excerpt), body,
                            MetaValue(f.source)),
         LAMBDA new0 :
             IF TokLen(new0) <= TokLen(body) /\ body # << >> THEN body ELSE new0)

\* the file rehydrate_file would write
Final(f, new_body) ==
    [f EXCEPT !.w = IF f.fm THEN << Nl, Nl >> ELSE << >>,
              !.body = StripTok(new_body) \o << Nl >>]

\* variant: the file is written whenever the body needs rehydration
rehydrate_file_alwayswrite(f, order) ==
    Bind(clean_body(IF f.fm THEN f.body ELSE f.w \o f.body, order), LAMBDA body :
        IF ~needs_rehydrate(body) THEN [ret |-> FALSE, file |-> f]
        ELSE [ret |-> TRUE, file |-> Final(f, NewBody(f, body))])

\* A post file: fm says whether the text has a front matter block; title,
\* excerpt and source are the texts after "title:", "excerpt:" and
\* "source:" (empty when there is no such line); w is the white space
\* between the closing "---" and the body; body is the rest of the text.
rehydrate_file(f, order) ==
    Bind(clean_body(IF f.fm THEN f.body ELSE f.w \o f.body, order), LAMBDA body :
        IF ~needs_rehydrate(body) THEN [ret |-> FALSE, file |-> f]
        ELSE Bind(Final(f, NewBody(f, body)), LAMBDA final :
                  IF final # f THEN [ret |-> TRUE, file |-> final]
                  ELSE [ret |-> FALSE, file |-> f]))

MaxRehydrations == 4     \* the count of calls of rehydrate_file stops here

RehydrateTitles ==
    { << >>,
      << Sp, X(20) >>,
      << Sp, Tag, X(45), Sp >>,
      << Sp, QuoteCh, X(58), Sp >> \o BanPaid \o << QuoteCh >> }

RehydrateExcerpts ==
    { << >>,
      << Sp, X(30) >>,
      << Sp, X(26), Sp >> \o BanSubs,
      << Sp, Http, Colon, X(10) >> }

RehydrateSources == { << >>, << Sp, X(6) >>, << Sp, X(77) >> }

RehydrateBodies ==
    { << >>,
      << X(30), Nl >>,
      << X(50), Nl, X(100), Colon, Nl, Dash, Sp, X(45), Nl >>,
      << X(45), Nl, Nl, Nl, X(45), Br, X(40), Tag, X(5), Nl >>,
      << X(350) >>,
      << X(520), Nl >>,
      << X(520), Sp >> \o BanUpper \o << Nl >>,
      << X(480), Sp >> \o BanPaid,
      << W("BANS", 1, 12) >> \o BanUpper \o << W("BANS", 13, 20), Sp, X(10), Nl >> }

RehydrateFiles ==
    { [fm |-> TRUE, title |-> t, excerpt |-> e, source |-> s, w |-> w, body |-> b] :
        t \in RehydrateTitles, e \in RehydrateExcerpts, s \in RehydrateSources,
        w \in { << Nl >>, << Nl, Nl >> }, b \in RehydrateBodies }
    \cup
    { [fm |-> FALSE, title |-> << >>, excerpt |-> << >>, source |-> << >>,
       w |-> w, body |-> b] :
        w \in { << >>, << Nl >> }, b \in RehydrateBodies }

InitRehydrate ==
    /\ tool \in { [fn |-> "rehydrate_posts", file |-> f, calls |-> 0,
                   ret |-> FALSE, prev |-> f] : f \in RehydrateFiles }
    /\ PipelineIdle

\* one run of the script on the file
RehydrateFile ==
    /\ tool.fn = "rehydrate_posts"
    /\ \E order \in PhraseOrders :
         \E r \in { rehydrate_file(tool.file, order) } :
            tool' = [tool EXCEPT !.file = r.file, !.ret = r.ret,
                                 !.calls = Min(tool.calls + 1, MaxRehydrations),
                                 !.prev = tool.file]
    /\ UNCHANGED PipelineVars

NextRehydrate == RehydrateFile

SpecRehydrate == InitRehydrate /\ [][NextRehydrate]_vars

\* the script is run again and again
SpecRehydrateFair == SpecRehydrate /\ WF_vars(RehydrateFile)

HasBanned(s) == \E ph \in BANNED_PHRASES : ContainsPhrase(s, ph)

\* C14 (as claimed): whenever rehydrate_file has rewritten the post, the
\* body of the file contains none of BANNED_PHRASES, in any letter case.
C14_WrittenBodyHasNoBannedPhrase ==
    (tool.calls >= 1 /\ tool.ret) => ~HasBanned(tool.file.body)

\* the last run returned False and left the file as it was
C16_Settled == tool.calls >= 1 /\ ~tool.ret /\ tool.file = tool.prev

\* C16: run again and again on a post, rehydrate_file reaches after finitely
\* many runs a state from which every run returns False and the file no
\* longer changes.
C16_EventuallySettled == <>[]C16_Settled

\* C16 witness: the body is an expansion written by an earlier run, two
\* runs rewrote the file, and the last run found nothing to do although the
\* cleaned body is still short of MIN_BODY_CHARS.
C16_Witness ==
    /\ C16_Settled
    /\ tool.calls >= 3
    /\ \E i \in 1..Len(tool.file.body) : tool.file.body[i].k = "P4H"
    /\ \E o \in PhraseOrders : needs_rehydrate(clean_body(tool.file.body, o))

====
